---- MODULE Spec2Model ----
(***************************************************************************)
(* A model of cell_loader (the PS3 PPU ELF loader of ida_gel):             *)
(* cell_loader::apply() and the stages it sequences - applySegments,       *)
(* swapSymbols, the two relocation walks and applyRelocation, the          *)
(* global-pointer                                                          *)
(* resolution, applyModuleInfo / applyProcessInfo with the export and      *)
(* import table walks, and applySymbols.                                    *)
(*                                                                         *)
(* 32-bit quantities (uint32 in the source) are pairs <<hi, lo>> of 16-bit *)
(* halves so that arithmetic modulo 2^32 is exact.  The address space of   *)
(* the host database is a function from 32-bit addresses to bytes with a   *)
(* finite domain; multi-byte accesses are big-endian, as in a PPC          *)
(* database.                                                               *)
(***************************************************************************)
EXTENDS Integers, Sequences, FiniteSets, TLC

VARIABLES
  kind,          \* m_elf->type(): "prx" (ET_SCE_PPURELEXEC) or "exec" (ET_EXEC)
  segments,      \* m_elf->getSegments(): program headers
  sections,      \* m_elf->getSections(): section headers
  symbols,       \* m_elf->getSymbols(): the symbol table, as bytes in memory order
  hasSymSec,     \* m_elf->getSymbolsSection() != NULL
  entry,         \* m_elf->entry()
  database,      \* m_database: the NID database (library groups of id/name entries)
  strlit,        \* the host's C strings: address -> string (get_strlit_contents)
  m_relocAddr,   \* cell_loader::m_relocAddr (low 32 bits)
  m_hasSegSym,   \* cell_loader::m_hasSegSym
  m_gpValue,     \* cell_loader::m_gpValue
  regions,       \* the regions the host was asked to create (add_segm_ex), in order
  mem,           \* the database bytes (current values)
  orig,          \* the database bytes before any patch (get_original_*)
  names,         \* the host's name of each address (force_name)
  typed,         \* addresses the host was asked to type as 4-byte fields (create_dword)
  structs,       \* <<address, structure>> the host was asked to declare (create_struct)
  pc,            \* position inside apply()
  si,            \* index of the section / segment / symbol being visited
  ri,            \* index of the relocation entry being visited
  ea,            \* cursor of the export / import table walk
  range,         \* <<top, end>> of the table being walked
  arg,           \* arguments of a direct applyRelocation call
  gpResolved,    \* history: m_gpValue has been assigned
  calls,         \* history: the applyRelocation calls made so far
  swapCount,     \* history: how many times each symbol was byte-swapped
  symReads,      \* history: symbols read by the section relocation walk, with swapCount then
  oobIndexed,    \* history: tables that were indexed outside their bounds
  visited,       \* history: number of relocation entries the walk has visited
  entReads,      \* history: addresses read as table-entry bytes by the table walk
  nidNamed,      \* history: addresses named from a resolved NID
  symApplied     \* history: <<address, name>> of each symbol applySymbols named, in order

vars == <<kind, segments, sections, symbols, hasSymSec, entry, database, strlit,
          m_relocAddr, m_hasSegSym, m_gpValue, regions, mem, orig, names, typed,
          structs, pc, si, ri, ea, range, arg, gpResolved, calls, swapCount, symReads, oobIndexed, visited,
          entReads, nidNamed, symApplied>>

-----------------------------------------------------------------------------
(* 32-bit unsigned arithmetic on <<hi, lo>> pairs.                          *)

\* 2^16: the radix of the two halves of a uint32.
Half == 65536

W(hi, lo) == <<hi, lo>>

\* A small natural number as a uint32.
U32(n) == <<(n \div Half) % Half, n % Half>>

Zero32 == <<0, 0>>

Add32(a, b) ==
  LET lo == a[2] + b[2]
  IN  <<(a[1] + b[1] + (lo \div Half)) % Half, lo % Half>>

Sub32(a, b) ==
  LET borrow == IF a[2] < b[2] THEN 1 ELSE 0
  IN  <<(a[1] - b[1] - borrow) % Half, (a[2] - b[2]) % Half>>

Lt32(a, b) == a[1] < b[1] \/ (a[1] = b[1] /\ a[2] < b[2])

RECURSIVE AndBits(_, _, _)
AndBits(x, y, n) ==
  IF n = 0 THEN 0
  ELSE (x % 2) * (y % 2) + 2 * AndBits(x \div 2, y \div 2, n - 1)

And16(x, y) == AndBits(x, y, 16)
Or16(x, y)  == x + y - And16(x, y)
Not16(x)    == (Half - 1) - x

And32(a, b) == <<And16(a[1], b[1]), And16(a[2], b[2])>>
Or32(a, b)  == <<Or16(a[1], b[1]), Or16(a[2], b[2])>>
Not32(a)    == <<Not16(a[1]), Not16(a[2])>>

\* x >> 16 on a uint32.
Shr16(a) == <<0, a[1]>>

-----------------------------------------------------------------------------
(* The host database: get_byte / get_word / get_dword, patch_word /        *)
(* patch_dword.  A byte outside the database reads as 0xFF.                 *)

NoByte == 255

EmptyMap == <<>>

get_byte(m, a) == IF a \in DOMAIN m THEN m[a] ELSE NoByte

get_word(m, a) == get_byte(m, a) * 256 + get_byte(m, Add32(a, U32(1)))

get_dword(m, a) == <<get_word(m, a), get_word(m, Add32(a, U32(2)))>>

put_byte(m, a, b) == [x \in (DOMAIN m) \cup {a} |-> IF x = a THEN b ELSE m[x]]

\* patch_word(ea, value): the low 16 bits of value, big-endian.
patch_word(m, a, v) ==
  put_byte(put_byte(m, a, v[2] \div 256), Add32(a, U32(1)), v[2] % 256)

patch_dword(m, a, v) ==
  patch_word(patch_word(m, a, <<0, v[1]>>), Add32(a, U32(2)), <<0, v[2]>>)

-----------------------------------------------------------------------------
(* Relocation types (the ELF PowerPC64 relocation numbering).              *)

R_PPC64_NONE      == 0
R_PPC64_ADDR32    == 1
R_PPC64_ADDR24    == 2
R_PPC64_ADDR16_LO == 4
R_PPC64_ADDR16_HA == 6
R_PPC64_REL24     == 10
R_PPC64_TOC16     == 47
R_PPC64_TOC16_DS  == 63
R_PPC64_TLSGD     == 107
\* The first code above the valid range (type > R_PPC64_TLSGD).
R_PPC64_INVALID   == 108

\* 0x03fffffc, the displacement field of a branch instruction.
REL24_MASK == <<1023, 65532>>
\* 0xFFFC, the displacement field of a DS-form instruction.
DS_MASK == 65532

(* case R_PPC64_ADDR16_HA: (((saddr + 0x8000) >> 16) & 0xFFFF) *)
Addr16HaNoRound(saddr) == And32(Shr16(saddr), <<0, 65535>>)
Addr16Ha(saddr) == And32(Shr16(Add32(saddr, <<0, 32768>>)), <<0, 65535>>)

(* case R_PPC64_ADDR16_LO: saddr & 0xFFFF *)
Addr16Lo(saddr) == And32(saddr, <<0, 65535>>)

(* case R_PPC64_REL24: (value & ~0x03fffffc) | ((saddr - addr) & 0x3fffffc) *)
Rel24Unmasked(word, addr, saddr) ==
  Or32(And32(word, Not32(REL24_MASK)), Sub32(saddr, addr))
Rel24(word, addr, saddr) ==
  Or32(And32(word, Not32(REL24_MASK)), And32(Sub32(saddr, addr), REL24_MASK))

(* case R_PPC64_TOC16_DS: (value & ~0xFFFC) | ((saddr - m_gpValue) & 0xFFFC), *)
(* value being the halfword get_word(addr) returned.                          *)
Toc16Ds(word, gp, saddr) ==
  <<0,
    Or16(And16(word, Not16(DS_MASK)), And16(Sub32(saddr, gp)[2], DS_MASK))>>

(* The switch of applyRelocation on the base-adjusted addresses: the width *)
(* of the patch (0: nothing is written) and the value handed to            *)
(* patch_word / patch_dword.                                               *)
RelocPatch(type, m, o, gp, addr, saddr) ==
  CASE type = R_PPC64_ADDR32    -> [width |-> 4, value |-> saddr]
    [] type = R_PPC64_ADDR16_LO -> [width |-> 2, value |-> Addr16Lo(saddr)]
    [] type = R_PPC64_ADDR16_HA -> [width |-> 2, value |-> Addr16Ha(saddr)]
    [] type = R_PPC64_REL24     ->
         [width |-> 4, value |-> Rel24(get_dword(o, addr), addr, saddr)]
    [] type = R_PPC64_TOC16     -> [width |-> 2, value |-> Sub32(saddr, gp)]
    [] type = R_PPC64_TOC16_DS  ->
         [width |-> 2, value |-> Toc16Ds(get_word(m, addr), gp, saddr)]
    [] type = R_PPC64_TLSGD     -> [width |-> 4, value |-> gp]
    [] OTHER                    -> [width |-> 0, value |-> Zero32]

IsTocType(type) == type \in {R_PPC64_TOC16, R_PPC64_TOC16_DS}

(* cell_loader::applyRelocation(type, addr, saddr): the database after the *)
(* call, and the record of the call kept in the history variable calls.    *)
applyRelocation(type, addr0, saddr0, m, o, gp, base, resolved, n) ==
  LET addr  == Add32(addr0, base)
      saddr == Add32(saddr0, base)
      p     == RelocPatch(type, m, o, gp, addr, saddr)
  IN  [mem  |-> CASE p.width = 4 -> patch_dword(m, addr, p.value)
                  [] p.width = 2 -> patch_word(m, addr, p.value)
                  [] OTHER       -> m,
       call |-> [n |-> n, type |-> type, addr |-> addr, saddr |-> saddr,
                 gp |-> gp, resolved |-> resolved,
                 width |-> p.width, value |-> p.value]]

-----------------------------------------------------------------------------
(* The binary handed to the loader by elf_reader.                          *)

\* Big-endian bytes of a small number, as they stand in the file.
BE16(n) == <<n \div 256, n % 256>>
BE32(n) == <<0, 0>> \o BE16(n)
BE64(n) == <<0, 0, 0, 0>> \o BE32(n)

\* The value the (little-endian) host reads from a field held as bytes.
HostU16(b) == b[1] + 256 * b[2]
HostU32(b) == <<b[3] + 256 * b[4], b[1] + 256 * b[2]>>

RECURSIVE Reverse(_)
Reverse(b) == IF b = <<>> THEN <<>> ELSE Reverse(Tail(b)) \o <<Head(b)>>

\* swap(x) of elf_reader: the bytes of x in the opposite order.
swap(b) == Reverse(b)

SHN_ABS == 65521
STT_OBJECT == 1
STT_FUNC == 2
STT_FILE == 4

\* ELF64_ST_TYPE(st_info)
ELF64_ST_TYPE(info) == info % 16

Sym(name, type, shndx, value) ==
  [st_name |-> BE32(name), st_info |-> 16 + type, st_shndx |-> BE16(shndx),
   st_value |-> BE64(value), st_size |-> BE64(4)]

\* A section header; flags holds "A" (SHF_ALLOC), "W" (SHF_WRITE), "X"
\* (SHF_EXECINSTR).
Sec(name, type, flags, addr, size, info, rela) ==
  [name |-> name, sh_type |-> type, alloc |-> "A" \in flags, write |-> "W" \in flags,
   exec |-> "X" \in flags, sh_addr |-> addr, sh_size |-> size, sh_info |-> info,
   rela |-> rela]

Seg(type, vaddr, paddr, offset, rela) ==
  [p_type |-> type, p_vaddr |-> vaddr, p_paddr |-> paddr, p_offset |-> offset,
   rela |-> rela]

Rela(type, sym, offset, addend) ==
  [type |-> type, sym |-> sym, r_offset |-> offset, r_addend |-> addend]

\* ELF64_R_SYM packed for the segment-based encoding: patch segment in the low
\* byte, symbol segment above it.
SegSym(patchseg, symseg) == patchseg + 256 * symseg

\* Addresses of the modelled image.
TextAddr    == 256
DataAddr    == 4096
ModInfoDelta == 16
EntTop      == 512
StubTop     == 1280
ProcPrxAddr == 384
EntryAddr   == 448

\* The number of entries of the relocation table of a run.
MaxRela == 2

SymbolTable ==
  << Sym(0, 0, 0, 0),
     Sym(1, STT_FUNC, 1, 768),
     Sym(10, STT_OBJECT, 2, 16),
     Sym(18, STT_OBJECT, SHN_ABS, 1536),
     Sym(26, STT_FUNC, 7, 32),
     Sym(36, STT_FILE, 1, 0) >>

\* &stringTable[st_name]
StringTable(off) ==
  CASE off = <<0, 1>>  -> "sym_func"
    [] off = <<0, 10>> -> "sym_obj"
    [] off = <<0, 18>> -> "sym_abs"
    [] off = <<0, 26>> -> "sym_edge"
    [] off = <<0, 36>> -> "file.c"
    [] OTHER           -> ""

\* Entries of a SHT_RELA section (symbol = index into the symbol table).
SectionEntries ==
  { Rela(R_PPC64_ADDR32, 1, 64, 4),
    Rela(R_PPC64_TOC16, 2, 68, 0),
    Rela(R_PPC64_NONE, 1, 64, 0),
    Rela(R_PPC64_INVALID, 1, 64, 0),
    Rela(R_PPC64_ADDR24, 6, 64, 0),
    Rela(R_PPC64_ADDR16_LO, 4, 76, 0),
    Rela(R_PPC64_ADDR32, 9, 80, 0) }

\* Entries of the PT_SCE_PPURELA segment (symbol = two segment indices).
SegmentEntries ==
  { Rela(R_PPC64_ADDR32, SegSym(0, 1), 48, 36),
    Rela(R_PPC64_TOC16, SegSym(1, 0), 8, 0),
    Rela(R_PPC64_NONE, SegSym(0, 0), 64, 0),
    Rela(R_PPC64_INVALID, SegSym(5, 0), 64, 0),
    Rela(R_PPC64_ADDR24, SegSym(0, 1), 64, 0),
    Rela(R_PPC64_ADDR32, SegSym(255, 255), 80, 0) }

RECURSIVE SeqsUpTo(_, _)
SeqsUpTo(S, n) ==
  IF n = 0 THEN {<<>>}
  ELSE LET shorter == SeqsUpTo(S, n - 1)
       IN  shorter \cup {Append(t, e) : t \in shorter, e \in S}

Sections(hasToc, tab) ==
  << Sec("", "SHT_NULL", {}, 0, 0, 0, <<>>),
     Sec(".text", "SHT_PROGBITS", {"A", "X"}, TextAddr, 2048, 0, <<>>),
     Sec(IF hasToc THEN ".toc" ELSE ".data", "SHT_PROGBITS", {"A", "W"}, DataAddr, 64,
         0, <<>>),
     Sec(".rela.text", "SHT_RELA", {}, 0, 24 * Len(tab), 1, tab),
     Sec(".symtab", "SHT_SYMTAB", {}, 0, 144, 0, <<>>),
     Sec(".comment", "SHT_PROGBITS", {}, 0, 16, 0, <<>>),
     Sec(".rela.comment", "SHT_RELA", {}, 0, 24 * Len(tab), 5, tab) >>

PrxSegments(segSym, tab) ==
  << Seg("PT_LOAD", TextAddr, 32, 16, <<>>),
     Seg("PT_LOAD", DataAddr, 0, 0, <<>>) >>
  \o (IF segSym THEN << Seg("PT_SCE_SEGSYM", 0, 0, 0, <<>>) >> ELSE <<>>)
  \o << Seg("PT_SCE_PPURELA", 0, 0, 0, tab),
        Seg("PT_SCE_PPURELA", 0, 0, 0, tab) >>

ExecSegments ==
  << Seg("PT_LOAD", TextAddr, 32, 16, <<>>),
     Seg("PT_PROC_PARAM", 352, 0, 0, <<>>),
     Seg("PT_PROC_PRX", ProcPrxAddr, 0, 0, <<>>) >>

-----------------------------------------------------------------------------
(* The file image loaded into the database.                                *)

Bytes(a, bs) ==
  [x \in {U32(a + i) : i \in 0 .. (Len(bs) - 1)} |-> bs[x[1] * Half + x[2] - a + 1]]

Dword(a, n) == Bytes(a, BE32(n))

\* Offsets and sizes of the structures declared by declareStructures.
OFF_nfunc     == 6
OFF_nvar      == 8
OFF_ntlsvar   == 10
OFF_libname   == 16
OFF_nidtable  == 20
OFF_addtable  == 24
SIZEOF_scelibent_ppu32 == 28
OFF_func_nidtable == 20
OFF_func_table    == 24
OFF_var_nidtable  == 28
OFF_var_table     == 32
OFF_tls_nidtable  == 36
OFF_tls_table     == 40
SIZEOF_scelibstub_ppu32 == 44
OFF_gp_value  == 32
OFF_ent_top   == 36
OFF_ent_end   == 40
OFF_stub_top  == 44
OFF_stub_end  == 48
SIZEOF_scemoduleinfo_ppu32 == 52
OFF_libent_start  == 16
OFF_libent_end    == 20
OFF_libstub_start == 24
OFF_libstub_end   == 28

\* A _scelibent_ppu32 at address a.
LibEnt(a, size, nfunc, nvar, ntlsvar, libname, nidtable, addtable) ==
  Bytes(a, <<size, 0, 0, 0, 0, 0>> \o BE16(nfunc) \o BE16(nvar) \o BE16(ntlsvar)
           \o <<0, 0, 0, 0>> \o BE32(libname) \o BE32(nidtable) \o BE32(addtable))

\* A _scelibstub_ppu32 at address a; t holds the six table pointers.
LibStub(a, size, nfunc, nvar, ntlsvar, libname, t) ==
  Bytes(a, <<size, 0, 0, 0, 0, 0>> \o BE16(nfunc) \o BE16(nvar) \o BE16(ntlsvar)
           \o <<0, 0, 0, 0>> \o BE32(libname) \o BE32(t[1]) \o BE32(t[2])
           \o BE32(t[3]) \o BE32(t[4]) \o BE32(t[5]) \o BE32(t[6]))

\* The export table of the image: one library "libA" exporting a function
\* (NID 1001, descriptor at 1024 whose code address is 768) and a variable.
ExportImage ==
  LibEnt(EntTop, SIZEOF_scelibent_ppu32, 1, 1, 0, 640, 656, 672)
  @@ Dword(656, 1001) @@ Dword(660, 1002)
  @@ Dword(672, 1024) @@ Dword(676, 1040)
  @@ Dword(1024, 768)

\* The import table of the image: one library "libB" importing a function
\* (NID 2001) and a variable (NID 2002).
ImportImage ==
  LibStub(StubTop, SIZEOF_scelibstub_ppu32, 1, 1, 0, 1408,
          <<1424, 1440, 1456, 1472, 0, 0>>)
  @@ Dword(1424, 2001) @@ Dword(1440, 1600)
  @@ Dword(1456, 2002) @@ Dword(1472, 1616)

Strings == (U32(640) :> "libA") @@ (U32(1408) :> "libB")

\* get_strlit_contents(&libName, ptr, ...)
StrAt(s, a) == IF a \in DOMAIN s THEN s[a] ELSE ""

Database ==
  << [name |-> "libA", entries |-> << [id |-> U32(1001), name |-> "cellFsOpen"] >>],
     [name |-> "libB", entries |-> << [id |-> U32(2001), name |-> "sys_write"],
                                      [id |-> U32(2002), name |-> "sys_errno"] >>] >>

\* The module-info structure of a PRX loaded at base.
ModuleInfoImage(base) ==
  LET a == TextAddr + base + ModInfoDelta
  IN  Dword(a + OFF_gp_value, 8192)
      @@ Dword(a + OFF_ent_top, EntTop)
      @@ Dword(a + OFF_ent_end, EntTop + SIZEOF_scelibent_ppu32)
      @@ Dword(a + OFF_stub_top, StubTop)
      @@ Dword(a + OFF_stub_end, StubTop + SIZEOF_scelibstub_ppu32)

\* The sys_process_prx_info_t of an executable and the word after its entry.
ProcessInfoImage ==
  Dword(ProcPrxAddr + OFF_libent_start, EntTop)
  @@ Dword(ProcPrxAddr + OFF_libent_end, EntTop + SIZEOF_scelibent_ppu32)
  @@ Dword(ProcPrxAddr + OFF_libstub_start, StubTop)
  @@ Dword(ProcPrxAddr + OFF_libstub_end, StubTop + SIZEOF_scelibstub_ppu32)
  @@ Dword(EntryAddr + 4, 12288)

\* m_gpValue is not set by the constructor: it starts with whatever the
\* object's storage held.
UninitializedGp == {<<0, 0>>, <<57005, 48879>>}

\* Relocation bases the user may give for a PRX (ask_addr).
PrxBases == {0, 64}

-----------------------------------------------------------------------------
(* cell_loader::apply().                                                   *)

NoHistory ==
  /\ gpResolved = FALSE
  /\ calls = {} /\ symReads = {} /\ oobIndexed = {} /\ visited = 0
  /\ entReads = {} /\ nidNamed = {} /\ symApplied = <<>>

Init ==
  /\ kind \in {"prx", "exec"}
  /\ \E base \in PrxBases, segSym \in BOOLEAN, hasToc \in BOOLEAN :
       \E tab \in SeqsUpTo(IF segSym THEN SectionEntries ELSE SegmentEntries, MaxRela) :
         /\ kind = "exec" => (base = 0 /\ ~segSym /\ ~hasToc /\ tab = <<>>)
         /\ ~segSym => ~hasToc
         /\ m_relocAddr = U32(base)
         /\ sections = Sections(hasToc, tab)
         /\ segments = IF kind = "prx" THEN PrxSegments(segSym, tab) ELSE ExecSegments
         /\ mem = (IF kind = "prx" THEN ModuleInfoImage(base) ELSE ProcessInfoImage)
                    @@ ExportImage @@ ImportImage
  /\ orig = mem
  /\ hasSymSec \in BOOLEAN
  /\ symbols = IF hasSymSec THEN SymbolTable ELSE <<>>
  /\ swapCount = [i \in DOMAIN symbols |-> 0]
  /\ entry = U32(EntryAddr)
  /\ database = Database
  /\ strlit = Strings
  /\ m_hasSegSym = FALSE
  /\ m_gpValue \in UninitializedGp
  /\ names = EmptyMap /\ typed = {} /\ structs = {}
  /\ regions = <<>>
  /\ pc = "applySegments"
  /\ si = 0 /\ ri = 0
  /\ ea = Zero32 /\ range = <<Zero32, Zero32>>
  /\ arg = [addr |-> Zero32, saddr |-> Zero32]
  /\ NoHistory

\* The parts of the state no stage of apply() after applySegments changes.
binary == <<kind, segments, sections, hasSymSec, entry, database, strlit,
            m_relocAddr, regions, orig, arg>>

(* applySegments(), applySectionHeaders(), applyProgramHeaders() and       *)
(* applySegment(): the regions the host is asked to create.  A region      *)
(* records the header it was made from (from, hdr).                        *)

\* applySegment(sel, offset, addr, size, name, sclass, perm, align, load)
applySegment(sel, addr, size, name, sclass, perm, load, from, hdr) ==
  [sel |-> sel, start |-> Add32(U32(addr), m_relocAddr), size |-> size,
   name |-> IF name = "NULL" THEN "" ELSE name, sclass |-> sclass, perm |-> perm,
   load |-> load, from |-> from, hdr |-> hdr]

\* Lines 128-141: perm and sclass of a section.
SectionPerm(section) ==
  (IF section.write THEN {"W"} ELSE {}) \cup (IF section.exec THEN {"X"} ELSE {})
SectionClass(section) ==
  IF section.exec THEN "CODE"
  ELSE IF section.sh_type = "SHT_NOBITS" THEN "BSS"
  ELSE "DATA"

\* Lines 123-126: only allocatable sections of non-zero size that are not SHT_NULL.
SectionLoaded(section) ==
  section.alloc /\ section.sh_size > 0 /\ section.sh_type # "SHT_NULL"

RECURSIVE applySectionHeaders(_, _, _)
(* applySectionHeaders(): the regions of sections i .. , the next one      *)
(* getting selector index.                                                 *)
applySectionHeaders(secs, i, index) ==
  IF i > Len(secs) THEN <<>>
  ELSE IF ~SectionLoaded(secs[i]) THEN applySectionHeaders(secs, i + 1, index)
  ELSE << applySegment(index, secs[i].sh_addr, secs[i].sh_size,
                       IF secs[i].name = "" THEN "NULL" ELSE secs[i].name,
                       SectionClass(secs[i]), SectionPerm(secs[i]),
                       secs[i].sh_type # "SHT_NOBITS", "section", i) >>
       \o applySectionHeaders(secs, i + 1, index + 1)

\* sclass and perm of applyProgramHeaders are declared without a value.
Uninitialized == "uninitialized"
\* What an unset sclass may point at: a class left by an earlier call.  (It
\* may also point nowhere: the crash outcome.)
UninitializedClass == {"CODE", "DATA", "CONST", "BSS"}
\* What an unset perm may hold before the flags are or-ed into it.
UninitializedPerm == {{}, {"R", "W", "X"}}

\* Lines 172-183: the assignments to sclass, in their order.
SegmentClass(flags, filesz, memsz) ==
  LET s1 == IF "W" \in flags THEN "DATA" ELSE Uninitialized
      s2 == IF "R" \in flags /\ "W" \notin flags /\ "X" \notin flags THEN "CONST" ELSE s1
      s3 == IF "X" \in flags THEN "CODE" ELSE s2
  IN  IF filesz = 0 /\ memsz > 0 THEN "BSS" ELSE s3

\* Lines 185-190: the flags or-ed into perm.
SegmentPerm(flags) == flags \cap {"R", "W", "X"}

\* The regions one program header with p_memsz > 0 may give.
ProgramRegions(segment, i, index) ==
  LET c == SegmentClass(segment.p_flags, segment.p_filesz, segment.p_memsz)
  IN  { applySegment(index, segment.p_vaddr, segment.p_memsz, "NULL", sclass,
                     perm \cup SegmentPerm(segment.p_flags), TRUE, "segment", i) :
          sclass \in (IF c = Uninitialized THEN UninitializedClass ELSE {c}),
          perm \in UninitializedPerm }

RECURSIVE applyProgramHeaders(_, _, _)
(* applyProgramHeaders(): the outcomes for segments i .. : the regions     *)
(* created, and whether the call faulted on an unset sclass.               *)
applyProgramHeaders(segs, i, index) ==
  IF i > Len(segs) THEN {[regions |-> <<>>, crashed |-> FALSE]}
  ELSE IF ~(segs[i].p_memsz > 0) THEN applyProgramHeaders(segs, i + 1, index)
  ELSE { [regions |-> <<r>> \o t.regions, crashed |-> t.crashed] :
           r \in ProgramRegions(segs[i], i, index),
           t \in applyProgramHeaders(segs, i + 1, index + 1) }
       \cup (IF SegmentClass(segs[i].p_flags, segs[i].p_filesz, segs[i].p_memsz)
                  = Uninitialized
               THEN {[regions |-> <<>>, crashed |-> TRUE]} ELSE {})

\* Lines 106-112: which headers applySegments uses.
HeadersUsedSegmentsFirst(nsec, nseg) ==
  IF nseg > 0 THEN "segments" ELSE IF nsec > 0 THEN "sections" ELSE "none"
HeadersUsed(nsec, nseg) ==
  IF nsec > 0 THEN "sections" ELSE IF nseg > 0 THEN "segments" ELSE "none"

(* applySegments(); loader_failure does not return. *)
applySegments ==
  /\ pc = "applySegments"
  /\ LET used == HeadersUsed(Len(sections), Len(segments))
     IN  CASE used = "sections" ->
                /\ regions' = applySectionHeaders(sections, 1, 0)
                /\ pc' = "swapSymbols"
           [] used = "segments" ->
                \E o \in applyProgramHeaders(segments, 1, 0) :
                  /\ regions' = o.regions
                  /\ pc' = IF o.crashed THEN "crashed" ELSE "swapSymbols"
           [] OTHER ->
                /\ regions' = regions
                /\ pc' = "failed"
  /\ UNCHANGED <<kind, segments, sections, symbols, hasSymSec, entry, database,
                 strlit, m_relocAddr, m_hasSegSym, m_gpValue, mem, orig, names, typed,
                 structs, si, ri, ea, range, arg, gpResolved, calls, swapCount,
                 symReads, oobIndexed, visited, entReads, nidNamed, symApplied>>

(* swapSymbols(): every symbol's st_name, st_shndx, st_size and st_value   *)
(* byte-swapped in place; nothing when there is no symbol section.         *)
swapSymbolsNotAtAll(syms) == syms
swapSymbolFields(syms) ==
  [i \in DOMAIN syms |->
     [syms[i] EXCEPT !.st_name = swap(@), !.st_shndx = swap(@),
                     !.st_size = swap(@), !.st_value = swap(@)]]

swapSymbols ==
  /\ pc = "swapSymbols"
  /\ IF ~hasSymSec
       THEN UNCHANGED <<symbols, swapCount>>
       ELSE /\ symbols' = swapSymbolFields(symbols)
            /\ swapCount' = [i \in DOMAIN swapCount |-> swapCount[i] + 1]
  /\ pc' = IF kind = "prx" THEN "segSym" ELSE "execGp"
  /\ UNCHANGED <<binary, m_hasSegSym, m_gpValue, mem, names, typed, structs, si, ri,
                 ea, range, gpResolved, calls, symReads, oobIndexed, visited,
                 entReads, nidNamed, symApplied>>

(* apply(), lines 44-64: m_hasSegSym is set when a PT_SCE_SEGSYM segment   *)
(* exists, and then a ".toc" section, when there is one, gives m_gpValue.  *)
HasSegSymSegment == \E i \in DOMAIN segments : segments[i].p_type = "PT_SCE_SEGSYM"

\* m_elf->getSectionByName(name): the indices of the sections so named.
getSectionByName(name) == {i \in DOMAIN sections : sections[i].name = name}

detectSegSym ==
  /\ pc = "segSym"
  /\ m_hasSegSym' = HasSegSymSegment
  /\ IF HasSegSymSegment /\ getSectionByName(".toc") # {}
       THEN LET toc == CHOOSE i \in getSectionByName(".toc") :
                         \A j \in getSectionByName(".toc") : i <= j
            IN  /\ m_gpValue' = Add32(U32(sections[toc].sh_addr), m_relocAddr)
                /\ gpResolved' = TRUE
       ELSE UNCHANGED <<m_gpValue, gpResolved>>
  /\ pc' = IF HasSegSymSegment THEN "sectionRelocs" ELSE "segmentRelocs"
  /\ si' = 0 /\ ri' = 0
  /\ UNCHANGED <<binary, symbols, mem, names, typed, structs, ea, range, calls,
                 swapCount, symReads, oobIndexed, visited, entReads, nidNamed,
                 symApplied>>

-----------------------------------------------------------------------------
(* The relocation walks.  Resolving an entry gives "skip" (continue),      *)
(* "apply" (applyRelocation is called) or "crash"; oob names the tables    *)
(* the entry indexed outside their bounds.  An out-of-bounds element of a  *)
(* table is whatever lies behind the table, or the read faults.            *)

Skipped(oob, symRead) ==
  [kind |-> "skip", addr |-> Zero32, saddr |-> Zero32, oob |-> oob, symRead |-> symRead]
Crashed(oob, symRead) ==
  [kind |-> "crash", addr |-> Zero32, saddr |-> Zero32, oob |-> oob, symRead |-> symRead]
Applied(addr, saddr, oob, symRead) ==
  [kind |-> "apply", addr |-> addr, saddr |-> saddr, oob |-> oob, symRead |-> symRead]

\* What may lie behind the symbol table (fields in host order): an absolute
\* symbol of value 0x700, or bytes of all ones.
GarbageSymbols ==
  { [st_name |-> <<0, 0, 0, 0>>, st_info |-> 0, st_shndx |-> <<241, 255>>,
     st_value |-> <<0, 7, 0, 0, 0, 0, 0, 0>>, st_size |-> <<0, 0, 0, 0, 0, 0, 0, 0>>],
    [st_name |-> <<255, 255, 255, 255>>, st_info |-> 255, st_shndx |-> <<255, 255>>,
     st_value |-> <<255, 255, 255, 255, 255, 255, 255, 255>>,
     st_size |-> <<255, 255, 255, 255, 255, 255, 255, 255>>] }

\* What may lie behind the section or segment table, read as an address.
GarbageAddrs == {<<0, 1792>>, <<65535, 65535>>}

\* if ( sym > m_elf->getNumSymbols() ) continue;
SymIndexRejected(sym, nsym) == sym > nsym

\* if ( st_shndx > m_elf->getNumSections() ) if ( st_shndx != SHN_ABS ) continue;
SecIndexRejected(shndx, nsec) == shndx > nsec /\ shndx # SHN_ABS

(* Lines 301-310 for symbol s (an element of the table, or what was read    *)
(* behind it).                                                             *)
SectionSymbolResolutions(e, s, sec, oob, symRead) ==
  LET shndx == HostU16(s.st_shndx)
      nsec  == Len(sections)
      value == HostU32(s.st_value)
      addr  == U32(sections[sec.sh_info + 1].sh_addr + e.r_offset)
      done(symaddr, o) ==
        Applied(addr, Add32(Add32(symaddr, value), U32(e.r_addend)), o, symRead)
  IN  IF SecIndexRejected(shndx, nsec) THEN {Skipped(oob, symRead)}
      ELSE IF shndx = SHN_ABS THEN {done(value, oob)}
      ELSE IF shndx < nsec THEN {done(U32(sections[shndx + 1].sh_addr), oob)}
      ELSE {Crashed(oob \cup {"sections"}, symRead)}
           \cup {done(g, oob \cup {"sections"}) : g \in GarbageAddrs}

(* Lines 270-310: one entry of a SHT_RELA section.                          *)
SectionResolutions(e, sec) ==
  LET nsym == Len(symbols)
  IN  IF e.type = R_PPC64_NONE THEN {Skipped({}, FALSE)}
      ELSE IF e.type > R_PPC64_TLSGD THEN {Skipped({}, FALSE)}
      ELSE IF SymIndexRejected(e.sym, nsym) THEN {Skipped({}, FALSE)}
      ELSE IF e.sym < nsym
        THEN SectionSymbolResolutions(e, symbols[e.sym + 1], sec, {}, TRUE)
      ELSE {Crashed({"symbols"}, FALSE)}
           \cup UNION {SectionSymbolResolutions(e, g, sec, {"symbols"}, FALSE) :
                         g \in GarbageSymbols}

\* segments[seg].p_vaddr for a segment index other than 0xFF.
SegmentVaddrs(seg) ==
  IF seg < Len(segments) THEN {U32(segments[seg + 1].p_vaddr)} ELSE GarbageAddrs

SegIndexOob(seg) == seg # 255 /\ seg >= Len(segments)

(* Lines 335-355: one entry of the PT_SCE_PPURELA segment.                  *)
SegmentResolutions(e) ==
  LET patchseg == e.sym % 256
      symseg   == (e.sym \div 256) % 8388608
      oob      == IF SegIndexOob(patchseg) \/ SegIndexOob(symseg)
                    THEN {"segments"} ELSE {}
      addrs    == IF patchseg = 255 THEN {Zero32}
                  ELSE {Add32(v, U32(e.r_offset)) : v \in SegmentVaddrs(patchseg)}
      saddrs   == IF symseg = 255 THEN {Zero32}
                  ELSE {Add32(v, U32(e.r_addend)) : v \in SegmentVaddrs(symseg)}
  IN  IF e.type = R_PPC64_NONE THEN {Skipped({}, FALSE)}
      ELSE {Applied(a, sa, oob, FALSE) : a \in addrs, sa \in saddrs}
           \cup (IF oob # {} THEN {Crashed(oob, FALSE)} ELSE {})

(* The effect of one resolved entry e on the state. *)
RelocEntryStep(e, r) ==
  /\ oobIndexed' = oobIndexed \cup r.oob
  /\ symReads' = IF r.symRead
                   THEN symReads \cup {<<e.sym, swapCount[e.sym + 1]>>}
                   ELSE symReads
  /\ visited' = visited + 1
  /\ CASE r.kind = "crash" ->
            /\ pc' = "crashed"
            /\ UNCHANGED <<mem, calls, ri>>
       [] r.kind = "skip" ->
            /\ ri' = ri + 1
            /\ UNCHANGED <<mem, calls, pc>>
       [] r.kind = "apply" ->
            LET a == applyRelocation(e.type, r.addr, r.saddr, mem, orig, m_gpValue,
                                     m_relocAddr, gpResolved, Cardinality(calls) + 1)
            IN  /\ mem' = a.mem
                /\ calls' = calls \cup {a.call}
                /\ ri' = ri + 1
                /\ UNCHANGED pc
  /\ UNCHANGED <<binary, symbols, m_hasSegSym, m_gpValue, names, typed, structs, si,
                 ea, range, gpResolved, swapCount, entReads, nidNamed, symApplied>>

walkVars == <<binary, symbols, m_hasSegSym, m_gpValue, mem, names, typed, structs,
              ea, range, gpResolved, calls, swapCount, symReads, oobIndexed, visited,
              entReads, nidNamed, symApplied>>

\* The section the walk of applySectionRelocations is at has entries to apply.
RelaSectionAt(i) ==
  /\ i < Len(sections)
  /\ sections[i + 1].sh_type = "SHT_RELA"
  /\ sections[sections[i + 1].sh_info + 1].alloc

(* applySectionRelocations(): a section that is no SHT_RELA section, or    *)
(* whose target is not allocatable, or whose entries are exhausted.        *)
sectionNext ==
  /\ pc = "sectionRelocs"
  /\ si < Len(sections)
  /\ ~RelaSectionAt(si) \/ ri >= Len(sections[si + 1].rela)
  /\ si' = si + 1 /\ ri' = 0
  /\ UNCHANGED <<walkVars, pc>>

applySectionEntry ==
  /\ pc = "sectionRelocs"
  /\ RelaSectionAt(si)
  /\ ri < Len(sections[si + 1].rela)
  /\ LET sec == sections[si + 1]
         e   == sec.rela[ri + 1]
     IN  \E r \in SectionResolutions(e, sec) : RelocEntryStep(e, r)

sectionRelocsDone ==
  /\ pc = "sectionRelocs"
  /\ si >= Len(sections)
  /\ pc' = "resolveGp"
  /\ UNCHANGED <<walkVars, si, ri>>

(* applySegmentRelocations(): only the first PT_SCE_PPURELA segment.        *)
segmentNext ==
  /\ pc = "segmentRelocs"
  /\ si < Len(segments)
  /\ segments[si + 1].p_type # "PT_SCE_PPURELA"
  /\ si' = si + 1 /\ ri' = 0
  /\ UNCHANGED <<walkVars, pc>>

applySegmentEntry ==
  /\ pc = "segmentRelocs"
  /\ si < Len(segments)
  /\ segments[si + 1].p_type = "PT_SCE_PPURELA"
  /\ ri < Len(segments[si + 1].rela)
  /\ LET e == segments[si + 1].rela[ri + 1]
     IN  \E r \in SegmentResolutions(e) : RelocEntryStep(e, r)

segmentRelocsDone ==
  /\ pc = "segmentRelocs"
  /\ IF si < Len(segments)
       THEN /\ segments[si + 1].p_type = "PT_SCE_PPURELA"
            /\ ri >= Len(segments[si + 1].rela)
       ELSE TRUE
  /\ pc' = "resolveGp"
  /\ UNCHANGED <<walkVars, si, ri>>

-----------------------------------------------------------------------------
(* The global pointer of a PRX without PT_SCE_SEGSYM, and the module info.  *)

\* (firstSegment.p_vaddr + m_relocAddr) + (firstSegment.p_paddr - firstSegment.p_offset)
ModInfoEa ==
  LET firstSegment == segments[1]
  IN  Add32(Add32(U32(firstSegment.p_vaddr), m_relocAddr),
            U32(firstSegment.p_paddr - firstSegment.p_offset))

\* get_dword(modInfoEa + offsetof(_scemoduleinfo_ppu32, gp_value)): the
\* current bytes of the database, patched or not.
ModuleInfoGp(m, o) == get_dword(m, Add32(ModInfoEa, U32(OFF_gp_value)))

(* apply(), lines 71-78. *)
resolveGp ==
  /\ pc = "resolveGp"
  /\ IF ~m_hasSegSym
       THEN /\ m_gpValue' = ModuleInfoGp(mem, orig)
            /\ gpResolved' = TRUE
       ELSE UNCHANGED <<m_gpValue, gpResolved>>
  /\ pc' = "moduleInfo"
  /\ UNCHANGED <<binary, symbols, m_hasSegSym, mem, names, typed, structs, si, ri, ea,
                 range, calls, swapCount, symReads, oobIndexed, visited, entReads,
                 nidNamed, symApplied>>

-----------------------------------------------------------------------------
(* The NID database and the export / import table walks.                   *)

\* force_name(ea, name), and the same update for the other address maps.
force_name(f, a, n) == [x \in (DOMAIN f) \cup {a} |-> IF x = a THEN n ELSE f[x]]

RECURSIVE FindEntry(_, _, _)
FindEntry(entries, nid, k) ==
  IF k > Len(entries) THEN <<>>
  ELSE IF entries[k].id = nid THEN <<entries[k].name>>
  ELSE FindEntry(entries, nid, k + 1)

RECURSIVE FindGroup(_, _, _, _)
FindGroup(db, library, nid, g) ==
  IF g > Len(db) THEN <<>>
  ELSE LET hit == IF db[g].name = library THEN FindEntry(db[g].entries, nid, 1)
                  ELSE <<>>
       IN  IF hit # <<>> THEN hit ELSE FindGroup(db, library, nid, g + 1)

\* getNameFromDatabase(library, nid): <<name>> of the first match, <<>> for nullptr.
getNameFromDatabase(library, nid) == FindGroup(database, library, nid, 1)

RangeAddrs(a, off, len) == {Add32(a, U32(off + k)) : k \in 0 .. (len - 1)}

\* The bytes of the entry at a that every iteration reads: structsize and the counts.
HeaderReads(a) == RangeAddrs(a, 0, 1) \cup RangeAddrs(a, OFF_nfunc, 6)

\* The annotations a table walk adds to.
Annotations == [names |-> names, typed |-> typed, structs |-> structs,
                nidNamed |-> nidNamed]

\* if ( structsize == sizeof(<the structure>) ) ... else continue;
SizeMatchesOrShorter(structsize, size) == structsize <= size
SizeMatches(structsize, size) == structsize = size

RECURSIVE ExportItems(_, _, _, _, _, _, _)
(* loadExports, lines 455-485: items i .. count-1 of one library entry. *)
ExportItems(i, count, nfunc, nidTable, addTable, libNamePtr, st) ==
  IF i >= count THEN st
  ELSE
    LET nidOffset == Add32(nidTable, U32(i * 4))
        addOffset == Add32(addTable, U32(i * 4))
        nid       == get_dword(mem, nidOffset)
        add       == get_dword(mem, addOffset)
        addToc    == get_dword(mem, add)
        resolved  == getNameFromDatabase(StrAt(strlit, libNamePtr), nid)
        named     == libNamePtr # Zero32 /\ resolved # <<>>
        n1 == IF named THEN force_name(st.names, add, resolved[1]) ELSE st.names
        n2 == IF named /\ i < nfunc THEN force_name(n1, addToc, "." \o resolved[1])
              ELSE n1
        by == IF named
                THEN st.nidNamed \cup {add} \cup (IF i < nfunc THEN {addToc} ELSE {})
                ELSE st.nidNamed
    IN  ExportItems(i + 1, count, nfunc, nidTable, addTable, libNamePtr,
                    [st EXCEPT !.names = n2, !.nidNamed = by,
                               !.typed = @ \cup {nidOffset, addOffset}])

(* loadExports, lines 417-490: the entry at cursor a. *)
ExportEntry(a, st) ==
  LET structsize == get_byte(mem, a)
      nfunc      == get_word(mem, Add32(a, U32(OFF_nfunc)))
      nvar       == get_word(mem, Add32(a, U32(OFF_nvar)))
      ntlsvar    == get_word(mem, Add32(a, U32(OFF_ntlsvar)))
      libNamePtr == get_dword(mem, Add32(a, U32(OFF_libname)))
      nidTable   == get_dword(mem, Add32(a, U32(OFF_nidtable)))
      addTable   == get_dword(mem, Add32(a, U32(OFF_addtable)))
      libName    == StrAt(strlit, libNamePtr)
      n1 == IF libNamePtr = Zero32
              THEN force_name(force_name(st.names, nidTable, "_NONAMEnid_table"),
                              addTable, "_NONAMEentry_table")
              ELSE force_name(
                     force_name(
                       force_name(st.names, libNamePtr, "_" \o libName \o "_str"),
                       nidTable, "__" \o libName \o "_Functions_NID_table"),
                     addTable, "__" \o libName \o "_Functions_table")
      st1 == [st EXCEPT !.names = n1,
                        !.structs = @ \cup {<<a, "_scelibent_ppu32">>}]
  IN  [next  |-> Add32(a, U32(structsize)),
       reads |-> HeaderReads(a)
                 \cup (IF SizeMatches(structsize, SIZEOF_scelibent_ppu32)
                         THEN RangeAddrs(a, OFF_libname, 12) ELSE {}),
       st    |-> IF ~SizeMatches(structsize, SIZEOF_scelibent_ppu32) THEN st
                 ELSE IF nidTable # Zero32 /\ addTable # Zero32
                   THEN ExportItems(0, nfunc + nvar + ntlsvar, nfunc, nidTable,
                                    addTable, libNamePtr, st1)
                 ELSE st1]

\* qsnprintf(symName, MAXNAMELEN, ".%s", resolvedNid): the name of a stub's code.
StubCodeNameOfStub(resolvedNid) == resolvedNid \o ".stub_entry"
StubCodeName(resolvedNid) == "." \o resolvedNid

RECURSIVE ImportItems(_, _, _, _, _, _, _)
(* loadImports, lines 542-573 (isFunc) and 578-597 / 602-621: items         *)
(* i .. count-1 of one sub-table of a library entry.                       *)
ImportItems(i, count, nidTable, table, libName, isFunc, st) ==
  IF i >= count THEN st
  ELSE
    LET nidOffset == Add32(nidTable, U32(i * 4))
        offset    == Add32(table, U32(i * 4))
        nid       == get_dword(mem, nidOffset)
        func      == get_dword(mem, offset)
        resolved  == getNameFromDatabase(libName, nid)
        n1 == CASE resolved = <<>> -> st.names
                [] isFunc -> force_name(force_name(st.names, offset,
                                                   resolved[1] \o ".stub_entry"),
                                        func, StubCodeName(resolved[1]))
                [] OTHER  -> force_name(st.names, offset, resolved[1])
        by == CASE resolved = <<>> -> st.nidNamed
                [] isFunc -> st.nidNamed \cup {offset, func}
                [] OTHER  -> st.nidNamed \cup {offset}
    IN  ImportItems(i + 1, count, nidTable, table, libName, isFunc,
                    [st EXCEPT !.names = n1, !.nidNamed = by,
                               !.typed = @ \cup {nidOffset, offset}])

(* loadImports, lines 506-626: the entry at cursor a. *)
ImportEntry(a, st) ==
  LET structsize == get_byte(mem, a)
      nFunc      == get_word(mem, Add32(a, U32(OFF_nfunc)))
      nVar       == get_word(mem, Add32(a, U32(OFF_nvar)))
      nTlsVar    == get_word(mem, Add32(a, U32(OFF_ntlsvar)))
      ptr(off)   == get_dword(mem, Add32(a, U32(off)))
      libNamePtr == ptr(OFF_libname)
      libName    == StrAt(strlit, libNamePtr)
      n1 == force_name(
              force_name(
                force_name(st.names, a, "_" \o libName \o "_0001_stub_head"),
                libNamePtr, "_" \o libName \o "_stub_str"),
              Sub32(libNamePtr, U32(4)), "_sce_package_version_" \o libName)
      st1 == [st EXCEPT !.names = n1,
                        !.structs = @ \cup {<<a, "_scelibstub_ppu32">>}]
      st2 == IF ptr(OFF_func_nidtable) # Zero32 /\ ptr(OFF_func_table) # Zero32
               THEN ImportItems(0, nFunc, ptr(OFF_func_nidtable), ptr(OFF_func_table),
                                libName, TRUE, st1)
               ELSE st1
      st3 == IF ptr(OFF_var_nidtable) # Zero32 /\ ptr(OFF_var_table) # Zero32
               THEN ImportItems(0, nVar, ptr(OFF_var_nidtable), ptr(OFF_var_table),
                                libName, FALSE, st2)
               ELSE st2
      st4 == IF ptr(OFF_tls_nidtable) # Zero32 /\ ptr(OFF_tls_table) # Zero32
               THEN ImportItems(0, nVar, ptr(OFF_tls_nidtable), ptr(OFF_tls_table),
                                libName, FALSE, st3)
               ELSE st3
  IN  [next  |-> Add32(a, U32(structsize)),
       reads |-> HeaderReads(a)
                 \cup (IF SizeMatches(structsize, SIZEOF_scelibstub_ppu32)
                         THEN RangeAddrs(a, OFF_libname, 28) ELSE {}),
       st    |-> IF SizeMatches(structsize, SIZEOF_scelibstub_ppu32) THEN st4 ELSE st]

\* The sentinel names loadExports / loadImports place before walking.
ExportSentinelsAtTop(nm, top, end) ==
  force_name(force_name(nm, top, "__begin_of_section_lib_ent"),
             end, "__end_of_section_lib_ent")
ExportSentinels(nm, top, end) ==
  force_name(force_name(nm, Sub32(top, U32(4)), "__begin_of_section_lib_ent"),
             end, "__end_of_section_lib_ent")
ImportSentinels(nm, top, end) ==
  force_name(force_name(nm, Sub32(top, U32(4)), "__begin_of_section_lib_stub"),
             end, "__end_of_section_lib_stub")

\* The structure holding the table bounds: the module info of a PRX, the
\* PT_PROC_PRX segment of an executable (segment si of applyProcessInfo).
InfoDword(prxOff, execOff) ==
  IF kind = "prx" THEN get_dword(mem, Add32(ModInfoEa, U32(prxOff)))
  ELSE get_dword(mem, U32(segments[si + 1].p_vaddr + execOff))

\* loadExports( ent_top, ent_end ): the sentinels, and the cursor at the top.
BeginExports ==
  LET top == InfoDword(OFF_ent_top, OFF_libent_start)
      end == InfoDword(OFF_ent_end, OFF_libent_end)
  IN  /\ range' = <<top, end>>
      /\ ea' = top
      /\ names' = ExportSentinels(names, top, end)
      /\ pc' = "exports"

(* applyModuleInfo(), up to the call of loadExports. *)
applyModuleInfo ==
  /\ pc = "moduleInfo"
  /\ structs' = structs \cup {<<ModInfoEa, "_scemoduleinfo">>}
  /\ BeginExports
  /\ UNCHANGED <<binary, symbols, m_hasSegSym, m_gpValue, mem, typed, si, ri,
                 gpResolved, calls, swapCount, symReads, oobIndexed, visited,
                 entReads, nidNamed, symApplied>>

tableVars == <<binary, symbols, m_hasSegSym, m_gpValue, mem, gpResolved, calls,
               swapCount, symReads, oobIndexed, visited, symApplied>>

(* One iteration of the loop of loadExports. *)
exportEntry ==
  /\ pc = "exports"
  /\ Lt32(ea, range[2])
  /\ LET r == ExportEntry(ea, Annotations)
     IN  /\ names' = r.st.names /\ typed' = r.st.typed
         /\ structs' = r.st.structs /\ nidNamed' = r.st.nidNamed
         /\ entReads' = entReads \cup {<<"ent", x, range[2]>> : x \in r.reads}
         /\ ea' = r.next
  /\ UNCHANGED <<tableVars, pc, si, ri, range>>

(* loadExports returns; loadImports( stub_top, stub_end ) starts. *)
exportsDone ==
  /\ pc = "exports"
  /\ ~Lt32(ea, range[2])
  /\ LET top == InfoDword(OFF_stub_top, OFF_libstub_start)
         end == InfoDword(OFF_stub_end, OFF_libstub_end)
     IN  /\ range' = <<top, end>>
         /\ ea' = top
         /\ names' = ImportSentinels(names, top, end)
  /\ pc' = "imports"
  /\ UNCHANGED <<tableVars, typed, structs, si, ri, entReads, nidNamed>>

(* One iteration of the loop of loadImports. *)
importEntry ==
  /\ pc = "imports"
  /\ Lt32(ea, range[2])
  /\ LET r == ImportEntry(ea, Annotations)
     IN  /\ names' = r.st.names /\ typed' = r.st.typed
         /\ structs' = r.st.structs /\ nidNamed' = r.st.nidNamed
         /\ entReads' = entReads \cup {<<"stub", x, range[2]>> : x \in r.reads}
         /\ ea' = r.next
  /\ UNCHANGED <<tableVars, pc, si, ri, range>>

(* loadImports returns: to applyModuleInfo, which registers the entry      *)
(* "module_info", or to the segment loop of applyProcessInfo.              *)
importsDone ==
  /\ pc = "imports"
  /\ ~Lt32(ea, range[2])
  /\ IF kind = "prx"
       THEN /\ names' = force_name(names, ModInfoEa, "module_info")
            /\ pc' = "symbols"
            /\ si' = 0
       ELSE /\ pc' = "processInfo"
            /\ si' = si + 1
            /\ UNCHANGED names
  /\ UNCHANGED <<tableVars, typed, structs, ri, ea, range, entReads, nidNamed>>

-----------------------------------------------------------------------------
(* The executable: apply(), lines 82-91, and applyProcessInfo().            *)

execGp ==
  /\ pc = "execGp"
  /\ m_gpValue' = get_dword(mem, Add32(entry, U32(4)))
  /\ gpResolved' = TRUE
  /\ pc' = "processInfo"
  /\ si' = 0
  /\ UNCHANGED <<binary, symbols, m_hasSegSym, mem, names, typed, structs, ri, ea,
                 range, calls, swapCount, symReads, oobIndexed, visited, entReads,
                 nidNamed, symApplied>>

(* applyProcessInfo(): segment si. *)
processInfoSegment ==
  /\ pc = "processInfo"
  /\ si < Len(segments)
  /\ LET segment == segments[si + 1]
     IN  CASE segment.p_type = "PT_PROC_PARAM" ->
                /\ structs' = structs \cup {<<U32(segment.p_vaddr), "sys_process_param_t">>}
                /\ si' = si + 1
                /\ UNCHANGED <<names, pc, ea, range>>
           [] segment.p_type = "PT_PROC_PRX" ->
                /\ structs' = structs
                                \cup {<<U32(segment.p_vaddr), "sys_process_prx_info_t">>}
                /\ BeginExports
                /\ UNCHANGED si
           [] OTHER ->
                /\ si' = si + 1
                /\ UNCHANGED <<structs, names, pc, ea, range>>
  /\ UNCHANGED <<tableVars, typed, ri, entReads, nidNamed>>

(* applyProcessInfo() returns; add_entry(0, m_elf->entry(), "_start", true). *)
processInfoDone ==
  /\ pc = "processInfo"
  /\ si >= Len(segments)
  /\ names' = force_name(names, entry, "_start")
  /\ pc' = "symbols"
  /\ si' = 0
  /\ UNCHANGED <<tableVars, typed, structs, ri, ea, range, entReads, nidNamed>>

-----------------------------------------------------------------------------
(* applySymbols().                                                         *)

\* Lines 748-764 for a symbol whose section is allocatable and lies at shAddr:
\* the address it names, or nothing for the other symbol types.
SymbolNaming(symbol, shAddr, oob) ==
  LET value == IF kind = "prx"
                 THEN Add32(HostU32(symbol.st_value), Add32(shAddr, m_relocAddr))
                 ELSE HostU32(symbol.st_value)
  IN  IF ELF64_ST_TYPE(symbol.st_info) \in {STT_OBJECT, STT_FUNC}
        THEN [kind |-> "name", value |-> value, oob |-> oob]
        ELSE [kind |-> "skip", value |-> value, oob |-> oob]

(* Lines 741-764: one symbol of the table. *)
SymbolOutcomes(symbol) ==
  LET shndx == HostU16(symbol.st_shndx)
      nsec  == Len(sections)
  IN  IF shndx > nsec THEN {[kind |-> "skip", value |-> Zero32, oob |-> {}]}
      ELSE IF shndx < nsec
        THEN IF ~sections[shndx + 1].alloc
               THEN {[kind |-> "skip", value |-> Zero32, oob |-> {}]}
               ELSE {SymbolNaming(symbol, U32(sections[shndx + 1].sh_addr), {})}
      ELSE {[kind |-> "crash", value |-> Zero32, oob |-> {"symbol sections"}],
            [kind |-> "skip", value |-> Zero32, oob |-> {"symbol sections"}]}
           \cup {SymbolNaming(symbol, g, {"symbol sections"}) : g \in GarbageAddrs}

\* force_name(value, &stringTable[ symbol.st_name ])
nameSymbolIfUnnamed(nm, a, n) == IF a \in DOMAIN nm THEN nm ELSE force_name(nm, a, n)
nameSymbol(nm, a, n) == force_name(nm, a, n)

lastVars == <<binary, symbols, m_hasSegSym, m_gpValue, mem, typed, structs, ri, ea,
              range, gpResolved, calls, swapCount, symReads, visited, entReads,
              nidNamed>>

applySymbol ==
  /\ pc = "symbols"
  /\ hasSymSec
  /\ si < Len(symbols)
  /\ LET symbol == symbols[si + 1]
         name   == StringTable(HostU32(symbol.st_name))
     IN  \E o \in SymbolOutcomes(symbol) :
           /\ oobIndexed' = oobIndexed \cup o.oob
           /\ CASE o.kind = "crash" ->
                     /\ pc' = "crashed"
                     /\ UNCHANGED <<names, symApplied, si>>
                [] o.kind = "skip" ->
                     /\ si' = si + 1
                     /\ UNCHANGED <<names, symApplied, pc>>
                [] o.kind = "name" ->
                     /\ names' = nameSymbol(names, o.value, name)
                     /\ symApplied' = Append(symApplied, <<o.value, name>>)
                     /\ si' = si + 1
                     /\ UNCHANGED pc
  /\ UNCHANGED lastVars

(* applySymbols() returns (at once when there is no symbol section), and   *)
(* with it apply().                                                        *)
applySymbolsDone ==
  /\ pc = "symbols"
  /\ IF hasSymSec THEN si >= Len(symbols) ELSE TRUE
  /\ pc' = "done"
  /\ UNCHANGED <<lastVars, names, symApplied, si, oobIndexed>>

Next ==
  \/ applySegments
  \/ swapSymbols
  \/ detectSegSym
  \/ sectionNext
  \/ applySectionEntry
  \/ sectionRelocsDone
  \/ segmentNext
  \/ applySegmentEntry
  \/ segmentRelocsDone
  \/ resolveGp
  \/ applyModuleInfo
  \/ exportEntry
  \/ exportsDone
  \/ importEntry
  \/ importsDone
  \/ execGp
  \/ processInfoSegment
  \/ processInfoDone
  \/ applySymbol
  \/ applySymbolsDone

Spec == Init /\ [][Next]_vars

-----------------------------------------------------------------------------
(* loadExports called on its own, on drawn tables and ranges (SpecExports). *)

\* The number of entries laid out in the table of a run of SpecExports.
MaxEntries == 2

\* Shapes of a table entry: <<structsize, nfunc, nvar, ntlsvar, libname>>.
EntryShapes ==
  { <<SIZEOF_scelibent_ppu32, 1, 1, 0, 640>>,
    <<SIZEOF_scelibent_ppu32, 1, 0, 0, 0>>,
    <<16, 1, 0, 0, 640>>,
    <<255, 1, 1, 1, 640>>,
    <<0, 0, 0, 0, 0>> }

\* Distances from the top of the table to the end handed to loadExports.
EndOffsets == {0, 4, 16, 28, 44, 56}

RECURSIVE TableImage(_, _)
\* The entries of shapes laid out from address a, each where the walk's
\* stride from the one before puts it.
TableImage(a, shapes) ==
  IF shapes = <<>> THEN EmptyMap
  ELSE LET h == Head(shapes)
       IN  LibEnt(a, h[1], h[2], h[3], h[4], h[5], 656, 672)
           @@ TableImage(a + h[1], Tail(shapes))

NidTablesImage ==
  Dword(656, 1001) @@ Dword(660, 1002) @@ Dword(664, 1003)
  @@ Dword(672, 1024) @@ Dword(676, 1040) @@ Dword(680, 1056)
  @@ Dword(1024, 768)

InitExports ==
  /\ kind = "exec"
  /\ segments = <<>> /\ sections = <<>> /\ symbols = <<>>
  /\ hasSymSec = FALSE
  /\ entry = Zero32
  /\ database = Database /\ strlit = Strings
  /\ m_relocAddr = Zero32
  /\ m_hasSegSym = FALSE
  /\ m_gpValue = Zero32
  /\ \E shapes \in SeqsUpTo(EntryShapes, MaxEntries) :
       mem = TableImage(EntTop, shapes) @@ NidTablesImage
  /\ orig = mem
  /\ names = EmptyMap /\ typed = {} /\ structs = {}
  /\ regions = <<>>
  /\ pc = "loadExports"
  /\ si = 0 /\ ri = 0
  /\ ea = Zero32
  /\ \E off \in EndOffsets : range = <<U32(EntTop), U32(EntTop + off)>>
  /\ arg = [addr |-> Zero32, saddr |-> Zero32]
  /\ swapCount = <<>>
  /\ NoHistory

(* loadExports(entTop, entEnd), lines 407-416: the sentinels, the cursor. *)
loadExports ==
  /\ pc = "loadExports"
  /\ names' = ExportSentinels(names, range[1], range[2])
  /\ ea' = range[1]
  /\ pc' = "exports"
  /\ UNCHANGED <<tableVars, typed, structs, si, ri, range, entReads, nidNamed>>

(* The loop of loadExports ends and the call returns. *)
loadExportsReturn ==
  /\ pc = "exports"
  /\ ~Lt32(ea, range[2])
  /\ pc' = "returned"
  /\ UNCHANGED <<tableVars, names, typed, structs, si, ri, ea, range, entReads,
                 nidNamed>>

NextExports == loadExports \/ exportEntry \/ loadExportsReturn

SpecExports == InitExports /\ [][NextExports]_vars

-----------------------------------------------------------------------------
(* loadExports or loadImports called on its own, on drawn tables and       *)
(* ranges (SpecTables).                                                    *)

\* The bytes of img below address a + size: an entry as long as it declares
\* itself (an entry declaring size 0 keeps its header).
Clip(img, a, size) ==
  IF size = 0 THEN img
  ELSE [x \in {y \in DOMAIN img : Lt32(y, U32(a + size))} |-> img[x]]

\* The sub-tables of the import libraries: function NIDs and stub slots,
\* variable NIDs and slots, TLS NIDs and slots.
StubTables == <<1424, 1440, 1456, 1472, 1488, 1504>>
NoTlsTables == <<1424, 1440, 1456, 1472, 0, 0>>

\* Shapes of an import entry: <<structsize, nfunc, nvar, ntlsvar, tables>>.
StubShapes ==
  { <<SIZEOF_scelibstub_ppu32, 2, 1, 0, StubTables>>,
    <<SIZEOF_scelibstub_ppu32, 1, 0, 1, StubTables>>,
    <<SIZEOF_scelibstub_ppu32, 1, 1, 1, StubTables>>,
    <<SIZEOF_scelibstub_ppu32, 1, 1, 0, NoTlsTables>>,
    <<16, 1, 1, 0, StubTables>>,
    <<0, 1, 0, 0, StubTables>> }

RECURSIVE ExportTableImage(_, _)
ExportTableImage(a, shapes) ==
  IF shapes = <<>> THEN EmptyMap
  ELSE LET h == Head(shapes)
       IN  Clip(LibEnt(a, h[1], h[2], h[3], h[4], h[5], 656, 672), a, h[1])
           @@ ExportTableImage(a + h[1], Tail(shapes))

RECURSIVE ImportTableImage(_, _)
ImportTableImage(a, shapes) ==
  IF shapes = <<>> THEN EmptyMap
  ELSE LET h == Head(shapes)
       IN  Clip(LibStub(a, h[1], h[2], h[3], h[4], 1408, h[5]), a, h[1])
           @@ ImportTableImage(a + h[1], Tail(shapes))

\* The NID and slot tables of "libB": the first function NID, the variable
\* NID and the TLS NID resolve, the second function NID (2999) does not.
StubTablesImage ==
  Dword(1424, 2001) @@ Dword(1428, 2999)
  @@ Dword(1440, 1600) @@ Dword(1444, 1616)
  @@ Dword(1456, 2002) @@ Dword(1460, 2998)
  @@ Dword(1472, 1632) @@ Dword(1476, 1648)
  @@ Dword(1488, 2002) @@ Dword(1492, 2997)
  @@ Dword(1504, 1664) @@ Dword(1508, 1680)

\* Distances from the top of the table to the end handed to the walk.
TableEndOffsets == {0, 16, 28, 44, 56, 88}

InitTables ==
  /\ kind = "exec"
  /\ segments = <<>> /\ sections = <<>> /\ symbols = <<>>
  /\ hasSymSec = FALSE
  /\ entry = Zero32
  /\ database = Database /\ strlit = Strings
  /\ m_relocAddr = Zero32
  /\ m_hasSegSym = FALSE
  /\ m_gpValue = Zero32
  /\ \/ /\ pc = "loadExports"
        /\ \E shapes \in SeqsUpTo(EntryShapes, MaxEntries) :
             mem = ExportTableImage(EntTop, shapes) @@ NidTablesImage
        /\ \E off \in TableEndOffsets : range = <<U32(EntTop), U32(EntTop + off)>>
     \/ /\ pc = "loadImports"
        /\ \E shapes \in SeqsUpTo(StubShapes, MaxEntries) :
             mem = ImportTableImage(StubTop, shapes) @@ StubTablesImage
        /\ \E off \in TableEndOffsets : range = <<U32(StubTop), U32(StubTop + off)>>
  /\ orig = mem
  /\ names = EmptyMap /\ typed = {} /\ structs = {}
  /\ regions = <<>>
  /\ si = 0 /\ ri = 0
  /\ ea = Zero32
  /\ arg = [addr |-> Zero32, saddr |-> Zero32]
  /\ swapCount = <<>>
  /\ NoHistory

(* loadImports(stubTop, stubEnd), lines 494-505: the sentinels, the cursor. *)
loadImports ==
  /\ pc = "loadImports"
  /\ names' = ImportSentinels(names, range[1], range[2])
  /\ ea' = range[1]
  /\ pc' = "imports"
  /\ UNCHANGED <<tableVars, typed, structs, si, ri, range, entReads, nidNamed>>

(* The loop of loadImports ends and the call returns. *)
loadImportsReturn ==
  /\ pc = "imports"
  /\ ~Lt32(ea, range[2])
  /\ pc' = "returned"
  /\ UNCHANGED <<tableVars, names, typed, structs, si, ri, ea, range, entReads,
                 nidNamed>>

NextTables ==
  \/ loadExports
  \/ exportEntry
  \/ loadExportsReturn
  \/ loadImports
  \/ importEntry
  \/ loadImportsReturn

SpecTables == InitTables /\ [][NextTables]_vars

-----------------------------------------------------------------------------
(* applySegments called on drawn section and program headers (SpecSegments). *)

\* The longest section table and the longest program-header table of a run.
MaxHeaders == 2

\* A program header with its flags ("R", "W", "X") and sizes.
Phdr(flags, filesz, memsz) ==
  [p_flags |-> flags, p_filesz |-> filesz, p_memsz |-> memsz]
    @@ Seg("PT_LOAD", TextAddr, 0, 0, <<>>)

ProgramHeaders ==
  {Phdr(f, 16, 16) : f \in SUBSET {"R", "W", "X"}}
    \cup {Phdr({"R", "W"}, 0, 16), Phdr({}, 0, 16), Phdr({"R", "X"}, 16, 0)}

SectionHeaders ==
  { Sec(".text", "SHT_PROGBITS", {"A", "X"}, TextAddr, 16, 0, <<>>),
    Sec(".bss", "SHT_NOBITS", {"A", "W"}, DataAddr, 8, 0, <<>>),
    Sec(".comment", "SHT_PROGBITS", {}, 0, 16, 0, <<>>),
    Sec("", "SHT_NULL", {"A"}, 0, 16, 0, <<>>),
    Sec(".empty", "SHT_PROGBITS", {"A", "W"}, DataAddr, 0, 0, <<>>) }

InitSegments ==
  /\ kind = "prx"
  /\ \E secs \in SeqsUpTo(SectionHeaders, MaxHeaders),
        segs \in SeqsUpTo(ProgramHeaders, MaxHeaders) :
       /\ secs # <<>> => Len(segs) <= 1
       /\ sections = secs
       /\ segments = segs
  /\ symbols = <<>> /\ hasSymSec = FALSE
  /\ entry = Zero32
  /\ database = <<>> /\ strlit = EmptyMap
  /\ \E base \in PrxBases : m_relocAddr = U32(base)
  /\ m_hasSegSym = FALSE
  /\ m_gpValue = Zero32
  /\ mem = EmptyMap /\ orig = mem
  /\ names = EmptyMap /\ typed = {} /\ structs = {}
  /\ regions = <<>>
  /\ pc = "applySegments"
  /\ si = 0 /\ ri = 0
  /\ ea = Zero32 /\ range = <<Zero32, Zero32>>
  /\ arg = [addr |-> Zero32, saddr |-> Zero32]
  /\ swapCount = <<>>
  /\ NoHistory

NextSegments == applySegments

SpecSegments == InitSegments /\ [][NextSegments]_vars

-----------------------------------------------------------------------------
(* Direct calls of applyRelocation on drawn arguments (SpecReloc).         *)

\* The number of applyRelocation calls of one run of SpecReloc.
MaxCalls == 2

RelocTypes ==
  {R_PPC64_NONE, R_PPC64_ADDR32, R_PPC64_ADDR24, R_PPC64_ADDR16_LO,
   R_PPC64_ADDR16_HA, R_PPC64_REL24, R_PPC64_TOC16, R_PPC64_TOC16_DS,
   R_PPC64_TLSGD, R_PPC64_INVALID}

\* Value addresses: every combination of boundary halves, among them
\* 0x00008000, 0x0000FFFF, 0x7FFFFFFF, 0x80000000 and 0xFFFFFFFF.
ValueHalves == {0, 1, 32767, 32768, 65535}
ValueAddrs == {<<h, l>> : h \in ValueHalves, l \in ValueHalves \cup {4660}}

TargetAddrs == {<<0, 256>>, <<32768, 65532>>}
InstrWords  == {<<18432, 1>>, <<65535, 65535>>}
RelocBases  == {<<0, 0>>, <<1, 32768>>}
GpValues    == {<<0, 0>>, <<0, 8192>>}

InitReloc ==
  /\ kind = "prx"
  /\ segments = <<>> /\ sections = <<>> /\ symbols = <<>>
  /\ hasSymSec = FALSE
  /\ entry = Zero32
  /\ database = <<>> /\ strlit = EmptyMap
  /\ m_relocAddr \in RelocBases
  /\ m_hasSegSym = FALSE
  /\ m_gpValue \in GpValues
  /\ arg \in [addr : TargetAddrs, saddr : ValueAddrs]
  /\ \E w \in InstrWords :
       /\ mem = patch_dword(EmptyMap, Add32(arg.addr, m_relocAddr), w)
       /\ orig = mem
  /\ names = EmptyMap /\ typed = {} /\ structs = {}
  /\ regions = <<>>
  /\ pc = "applyRelocation"
  /\ si = 0 /\ ri = 0
  /\ ea = Zero32 /\ range = <<Zero32, Zero32>>
  /\ gpResolved = TRUE
  /\ calls = {}
  /\ swapCount = <<>> /\ symReads = {} /\ oobIndexed = {} /\ visited = 0
  /\ entReads = {} /\ nidNamed = {} /\ symApplied = <<>>

(* One call applyRelocation(type, arg.addr, arg.saddr). *)
DirectCall(type) ==
  /\ pc = "applyRelocation"
  /\ Cardinality(calls) < MaxCalls
  /\ type \notin {c.type : c \in calls}
  /\ LET r == applyRelocation(type, arg.addr, arg.saddr, mem, orig, m_gpValue,
                              m_relocAddr, gpResolved, Cardinality(calls) + 1)
     IN  /\ mem' = r.mem
         /\ calls' = calls \cup {r.call}
  /\ UNCHANGED <<kind, segments, sections, symbols, hasSymSec, entry, database,
                 strlit, m_relocAddr, m_hasSegSym, m_gpValue, regions, orig, names,
                 typed, structs, pc, si, ri, ea, range, arg, gpResolved, swapCount, symReads,
                 oobIndexed, visited, entReads, nidNamed, symApplied>>

NextReloc == \E type \in RelocTypes : DirectCall(type)

SpecReloc == InitReloc /\ [][NextReloc]_vars

-----------------------------------------------------------------------------
(* Claims about applyRelocation.                                           *)

LastCall(c) == c.n = Cardinality(calls)

\* C5: the word REL24 writes agrees with the original (pre-patch) instruction
\* word outside 0x03FFFFFC, and inside the mask it is (value - target) &
\* 0x03FFFFFC modulo 2^32 on the base-adjusted addresses.
C5_Rel24KeepsOpcodeBits ==
  \A c \in calls : c.type = R_PPC64_REL24 =>
    /\ c.width = 4
    /\ And32(c.value, Not32(REL24_MASK))
         = And32(get_dword(orig, c.addr), Not32(REL24_MASK))
    /\ And32(c.value, REL24_MASK) = And32(Sub32(c.saddr, c.addr), REL24_MASK)
    /\ LastCall(c) => get_dword(mem, c.addr) = c.value

\* A REL24 call on an instruction word with bits set outside the mask and a
\* displacement with bits set outside it, made after another patch of the word.
C5_Witness ==
  \E c \in calls :
    /\ c.type = R_PPC64_REL24 /\ c.n = 2
    /\ get_dword(orig, c.addr) = <<65535, 65535>>
    /\ And32(Sub32(c.saddr, c.addr), Not32(REL24_MASK)) # Zero32
    /\ get_dword(mem, c.addr) = c.value

SignExtend16(x) == IF x >= 32768 THEN <<65535, x>> ELSE <<0, x>>

\* C6: the halfwords written by ADDR16_HA and ADDR16_LO for the same value
\* address v satisfy (HA << 16) + sign-extend16(LO) = v modulo 2^32.
C6_HaLoReconstruct ==
  \A h \in calls : \A l \in calls :
    (h.type = R_PPC64_ADDR16_HA /\ l.type = R_PPC64_ADDR16_LO /\ h.saddr = l.saddr) =>
      /\ h.width = 2 /\ l.width = 2
      /\ Add32(<<h.value[2], 0>>, SignExtend16(l.value[2])) = h.saddr
      /\ LastCall(l) => get_word(mem, l.addr) = l.value[2]
      /\ LastCall(h) => get_word(mem, h.addr) = h.value[2]

\* Both halves were written for v = 0x7FFFFFFF.
C6_Witness ==
  \E h \in calls : \E l \in calls :
    /\ h.type = R_PPC64_ADDR16_HA /\ l.type = R_PPC64_ADDR16_LO
    /\ h.saddr = <<32767, 65535>>
    /\ h.value[2] = 32768

-----------------------------------------------------------------------------
(* Claims about apply() and its stages.                                    *)

\* The positions of apply() after the global pointer of a PRX is resolved.
AfterGp == {"moduleInfo", "exports", "imports", "symbols", "done"}

\* C1: no TOC16 / TOC16_DS patch is computed from a global pointer that has
\* not been assigned.
C1_GpResolvedBeforeToc ==
  \A c \in calls : IsTocType(c.type) => c.resolved

\* C2: loadExports reads no table-entry byte at an address >= entEnd.
C2_NoReadPastEnd ==
  \A r \in entReads : r[1] = "ent" => Lt32(r[2], r[3])

\* C3: a symbol index or segment index outside its table is never used to
\* index the table.
C3_NoOutOfBoundsIndex ==
  oobIndexed \cap {"symbols", "segments"} = {}

\* The relocation entry the walk is about to process, if any.
AtEntry ==
  \/ pc = "sectionRelocs" /\ RelaSectionAt(si) /\ ri < Len(sections[si + 1].rela)
  \/ /\ pc = "segmentRelocs" /\ si < Len(segments)
     /\ segments[si + 1].p_type = "PT_SCE_PPURELA"
     /\ ri < Len(segments[si + 1].rela)

CurrentEntry ==
  IF pc = "sectionRelocs" THEN sections[si + 1].rela[ri + 1]
  ELSE segments[si + 1].rela[ri + 1]

PatchingTypes ==
  {R_PPC64_ADDR32, R_PPC64_ADDR16_LO, R_PPC64_ADDR16_HA, R_PPC64_REL24,
   R_PPC64_TOC16, R_PPC64_TOC16_DS, R_PPC64_TLSGD}

\* C4: an entry of type NONE, of a type above TLSGD or of an unsupported
\* type leaves every byte unchanged, and the walk goes on to the next entry.
C4_NoEffectTypesSkip ==
  [][(AtEntry /\ CurrentEntry.type \notin PatchingTypes /\ visited' = visited + 1)
       => (mem' = mem /\ pc' = pc /\ si' = si /\ ri' = ri + 1)]_vars

\* C7: in SegmentBased mode the global pointer is the gp_value field as it
\* stood before any relocation entry was applied.
C7_GpFromUnrelocated ==
  (kind = "prx" /\ ~m_hasSegSym /\ pc \in AfterGp) =>
    m_gpValue = get_dword(orig, Add32(ModInfoEa, U32(OFF_gp_value)))

\* C8: in SectionBased mode the global pointer is the address of ".toc" plus
\* the relocation base when the section exists, and the gp_value field of the
\* module info otherwise.
C8_SectionModeGp ==
  (kind = "prx" /\ m_hasSegSym /\ pc \in AfterGp) =>
    m_gpValue =
      IF \E i \in DOMAIN sections : sections[i].name = ".toc"
        THEN Add32(U32(DataAddr), m_relocAddr)
        ELSE get_dword(mem, Add32(ModInfoEa, U32(OFF_gp_value)))

\* The last symbol applySymbols applied at the address of the k-th one.
LastApplied(k) ==
  CHOOSE j \in DOMAIN symApplied :
    /\ symApplied[j][1] = symApplied[k][1]
    /\ \A i \in DOMAIN symApplied : symApplied[i][1] = symApplied[k][1] => i <= j

\* C9: the name of every address named by an applied STT_OBJECT / STT_FUNC
\* symbol is the symbol-table name, up to the end of apply(), also where the
\* table walks had named the address from a resolved NID.
C9_SymbolNamesLast ==
  \A k \in DOMAIN symApplied :
    /\ symApplied[k][1] \in DOMAIN names
    /\ names[symApplied[k][1]] = symApplied[LastApplied(k)][2]

\* apply() has returned, and a symbol named an address that a resolved NID
\* had named before.
C9_Witness ==
  /\ pc = "done"
  /\ \E k \in DOMAIN symApplied :
       /\ symApplied[k][1] \in nidNamed
       /\ names[symApplied[k][1]] = "sym_func"

\* C10: every symbol's numeric fields are byte-swapped exactly once, and
\* before any section-based relocation entry reads a symbol.
C10_SwappedOnceBeforeRelocs ==
  /\ \A i \in DOMAIN swapCount : swapCount[i] <= 1
  /\ pc \notin {"applySegments", "swapSymbols"} =>
       \A i \in DOMAIN symbols :
         /\ swapCount[i] = 1
         /\ symbols[i].st_name = Reverse(SymbolTable[i].st_name)
         /\ symbols[i].st_shndx = Reverse(SymbolTable[i].st_shndx)
         /\ symbols[i].st_size = Reverse(SymbolTable[i].st_size)
         /\ symbols[i].st_value = Reverse(SymbolTable[i].st_value)
  /\ \A r \in symReads : r[2] = 1

\* A section-based relocation entry has read a symbol, swapped once, and
\* apply() has run to its end.
C10_Witness ==
  /\ pc = "done"
  /\ m_hasSegSym
  /\ \E r \in symReads : r[2] = 1 /\ swapCount[r[1] + 1] = 1

-----------------------------------------------------------------------------
(* Claims about applySegments.                                             *)

\* The headers of a table that satisfy P, in the table's order.
LoadedSections == {i \in DOMAIN sections : SectionLoaded(sections[i])}

\* C11: regions are made from section headers only when there is a section
\* header, from program headers only when there is none but a program header,
\* and with neither the run fails and no region is made.
C11_HeaderPreference ==
  pc # "applySegments" =>
    IF Len(sections) > 0
      THEN /\ pc # "failed"
           /\ \A k \in DOMAIN regions : regions[k].from = "section"
           /\ {regions[k].hdr : k \in DOMAIN regions} = LoadedSections
           /\ Len(regions) = Cardinality(LoadedSections)
    ELSE IF Len(segments) > 0
      THEN /\ pc # "failed"
           /\ \A k \in DOMAIN regions : regions[k].from = "segment"
    ELSE pc = "failed" /\ regions = <<>>

\* Section headers and a program header with bytes in memory exist, and the
\* regions made are those of the sections.
C11_Witness ==
  /\ pc = "swapSymbols"
  /\ Len(sections) = 2 /\ Len(segments) = 1 /\ segments[1].p_memsz > 0
  /\ Len(regions) = 2
  /\ \A k \in DOMAIN regions : regions[k].from = "section"

\* The class the chain of the claim gives, where it gives one.
ClaimedClasses(flags, filesz) ==
  IF filesz = 0 THEN {"BSS"}
  ELSE IF "X" \in flags THEN {"CODE"}
  ELSE IF "W" \in flags THEN {"DATA"}
  ELSE IF "R" \in flags THEN {"CONST"}
  ELSE {"BSS", "CODE", "DATA", "CONST"}

\* C15: on the program-header path a segment of zero in-memory size gives no
\* region; every other segment gives exactly one region, whose class is
\* fixed by its flags and sizes: Bss, else Code, else Data, else Const.
C15_SegmentClasses ==
  (pc # "applySegments" /\ Len(sections) = 0 /\ Len(segments) > 0) =>
    /\ pc # "crashed"
    /\ \A i \in DOMAIN segments :
         Cardinality({k \in DOMAIN regions : regions[k].hdr = i})
           = IF segments[i].p_memsz > 0 THEN 1 ELSE 0
    /\ \A k \in DOMAIN regions :
         regions[k].sclass
           \in ClaimedClasses(segments[regions[k].hdr].p_flags,
                              segments[regions[k].hdr].p_filesz)
    /\ \A k \in DOMAIN regions : \A l \in DOMAIN regions :
         ( /\ segments[regions[k].hdr].p_flags = segments[regions[l].hdr].p_flags
           /\ segments[regions[k].hdr].p_filesz = segments[regions[l].hdr].p_filesz )
           => regions[k].sclass = regions[l].sclass

-----------------------------------------------------------------------------
(* Claims about the export and import table walks.                         *)

\* A step of the loop of loadExports / loadImports at the entry under ea.
ExportStep == pc = "exports" /\ pc' = "exports" /\ Lt32(ea, range[2])
ImportStep == pc = "imports" /\ pc' = "imports" /\ Lt32(ea, range[2])

\* The fields of the import entry at address a.
StubField(a, off) == get_dword(mem, Add32(a, U32(off)))
StubCount(a, off) == get_word(mem, Add32(a, U32(off)))

\* The import entry at a has the expected size and all six tables.
WellFormedStub(a) ==
  /\ get_byte(mem, a) = SIZEOF_scelibstub_ppu32
  /\ \A off \in {OFF_func_nidtable, OFF_func_table, OFF_var_nidtable, OFF_var_table,
                 OFF_tls_nidtable, OFF_tls_table} : StubField(a, off) # Zero32

\* The NID slot, the stub slot and the code address of function i of the
\* import entry at a, and the name its NID resolves to.
FuncNidSlot(a, i) == Add32(StubField(a, OFF_func_nidtable), U32(4 * i))
FuncStubSlot(a, i) == Add32(StubField(a, OFF_func_table), U32(4 * i))
FuncCode(a, i) == get_dword(mem, FuncStubSlot(a, i))
FuncResolved(a, i) ==
  getNameFromDatabase(StrAt(strlit, StubField(a, OFF_libname)),
                      get_dword(mem, FuncNidSlot(a, i)))

\* What the walk does for function i apart from the name of the code address.
FuncSlotsAnnotated(a, i) ==
  /\ {FuncNidSlot(a, i), FuncStubSlot(a, i)} \subseteq typed'
  /\ IF FuncResolved(a, i) # <<>>
       THEN /\ FuncStubSlot(a, i) \in DOMAIN names'
            /\ names'[FuncStubSlot(a, i)] = FuncResolved(a, i)[1] \o ".stub_entry"
            /\ FuncCode(a, i) \in DOMAIN names'
       ELSE /\ FuncStubSlot(a, i) \notin DOMAIN names'
            /\ FuncCode(a, i) \notin DOMAIN names'

\* C12 as stated: the code address of a function whose NID resolves to N is
\* named N, its stub slot N.stub_entry; an unresolved NID names neither; the
\* NID slot and the stub slot are typed as 4-byte fields either way.
C12_CodeNamedAsNid ==
  [][(ImportStep /\ WellFormedStub(ea)) =>
       \A i \in 0 .. (StubCount(ea, OFF_nfunc) - 1) :
         /\ FuncSlotsAnnotated(ea, i)
         /\ FuncResolved(ea, i) # <<>> =>
              names'[FuncCode(ea, i)] = FuncResolved(ea, i)[1]]_vars

\* C12 amended: the code address is named N with a dot before it (".N").
C12_CodeNamedDotNid ==
  [][(ImportStep /\ WellFormedStub(ea)) =>
       \A i \in 0 .. (StubCount(ea, OFF_nfunc) - 1) :
         /\ FuncSlotsAnnotated(ea, i)
         /\ FuncResolved(ea, i) # <<>> =>
              names'[FuncCode(ea, i)] = "." \o FuncResolved(ea, i)[1]]_vars

\* An entry with two functions was walked: the first NID resolved, the second
\* did not.
C12_Witness ==
  /\ pc = "returned"
  /\ <<range[1], "_scelibstub_ppu32">> \in structs
  /\ StubCount(range[1], OFF_nfunc) = 2
  /\ U32(1440) \in DOMAIN names /\ names[U32(1440)] = "sys_write.stub_entry"
  /\ U32(1600) \in DOMAIN names /\ names[U32(1600)] = ".sys_write"
  /\ U32(1444) \notin DOMAIN names /\ U32(1616) \notin DOMAIN names
  /\ {U32(1428), U32(1444)} \subseteq typed

\* The NID slots and address slots of the first count items of a sub-table.
SubTableSlots(a, nidOff, tabOff, count) ==
  UNION { {Add32(StubField(a, nidOff), U32(4 * i)),
           Add32(StubField(a, tabOff), U32(4 * i))} : i \in 0 .. (count - 1) }

\* C13: of a well-formed import entry with all tables, exactly nfunc items of
\* the function sub-table, nvar items of the variable sub-table and ntlsvar
\* items of the TLS sub-table are processed.
C13_SubTableCounts ==
  [][(ImportStep /\ WellFormedStub(ea)) =>
       typed' = typed
                  \cup SubTableSlots(ea, OFF_func_nidtable, OFF_func_table,
                                     StubCount(ea, OFF_nfunc))
                  \cup SubTableSlots(ea, OFF_var_nidtable, OFF_var_table,
                                     StubCount(ea, OFF_nvar))
                  \cup SubTableSlots(ea, OFF_tls_nidtable, OFF_tls_table,
                                     StubCount(ea, OFF_ntlsvar))]_vars

\* The call of loadExports / loadImports that places the sentinels.
SentinelStep == pc \in {"loadExports", "loadImports"} /\ pc' \in {"exports", "imports"}
BeginSentinel == IF pc = "loadExports" THEN "__begin_of_section_lib_ent"
                 ELSE "__begin_of_section_lib_stub"
EndSentinel == IF pc = "loadExports" THEN "__end_of_section_lib_ent"
               ELSE "__end_of_section_lib_stub"
NamedAfter(a, n) == a \in DOMAIN names' /\ names'[a] = n

\* C14 as stated: the begin sentinel is placed on address top - 1, the end
\* sentinel on address end, for every range.
C14_SentinelBeforeTop ==
  [][SentinelStep =>
       /\ NamedAfter(Sub32(range[1], U32(1)), BeginSentinel)
       /\ NamedAfter(range[2], EndSentinel)]_vars

\* C14 amended: the begin sentinel is placed on address top - 4.
C14_SentinelFourBeforeTop ==
  [][SentinelStep =>
       /\ NamedAfter(Sub32(range[1], U32(4)), BeginSentinel)
       /\ NamedAfter(range[2], EndSentinel)
       /\ DOMAIN names' = DOMAIN names \cup {Sub32(range[1], U32(4)), range[2]}]_vars

\* loadImports has returned from an empty range with both sentinels placed.
C14_Witness ==
  /\ pc = "returned"
  /\ range[1] = range[2]
  /\ entReads = {}
  /\ names = (Sub32(range[1], U32(4)) :> "__begin_of_section_lib_stub")
               @@ (range[2] :> "__end_of_section_lib_stub")

\* C16: the cursor of the walk strictly advances on every iteration.
C16_CursorAdvances ==
  [][(ExportStep \/ ImportStep) => Lt32(ea, ea')]_vars

\* The annotations of the host.
annotations == <<names, typed, structs, nidNamed>>

\* C17: an entry whose declared size is not the expected one receives no
\* annotation and the walk continues at cursor + declared size; an entry of
\* the expected size is processed wherever the walk reaches it.
C17_MismatchSkipped ==
  [][/\ (ExportStep /\ get_byte(mem, ea) # SIZEOF_scelibent_ppu32) =>
          (UNCHANGED annotations /\ ea' = Add32(ea, U32(get_byte(mem, ea))))
     /\ (ImportStep /\ get_byte(mem, ea) # SIZEOF_scelibstub_ppu32) =>
          (UNCHANGED annotations /\ ea' = Add32(ea, U32(get_byte(mem, ea))))
     /\ (ExportStep /\ get_byte(mem, ea) = SIZEOF_scelibent_ppu32) =>
          (<<ea, "_scelibent_ppu32">> \in structs'
             /\ ea' = Add32(ea, U32(SIZEOF_scelibent_ppu32)))
     /\ (ImportStep /\ get_byte(mem, ea) = SIZEOF_scelibstub_ppu32) =>
          (<<ea, "_scelibstub_ppu32">> \in structs'
             /\ ea' = Add32(ea, U32(SIZEOF_scelibstub_ppu32)))]_vars

\* loadImports has returned after a 16-byte entry, which was skipped, and the
\* well-formed entry behind it, which was processed.
C17_Witness ==
  /\ pc = "returned"
  /\ get_byte(mem, range[1]) = 16
  /\ structs = {<<Add32(range[1], U32(16)), "_scelibstub_ppu32">>}
  /\ U32(1440) \in DOMAIN names /\ names[U32(1440)] = "sys_write.stub_entry"
  /\ Add32(range[1], U32(16)) \in DOMAIN names
  /\ range[1] \notin DOMAIN names

====
